---- MODULE Spec2Model ----
(***************************************************************************)
(* State-machine model of src/src/subproviders/ledger_wallet.ts: the       *)
(* LedgerWallet signing adapter, its setters, its four asynchronous        *)
(* operations and the wrapping factories.                                  *)
(*                                                                         *)
(* Strings the code transforms (addresses, hex strings, signatures) are    *)
(* sequences of one-character strings; Buffers are sequences of bytes.     *)
(* A derivation path `${base}/${index}` is the record [base, index].       *)
(***************************************************************************)
EXTENDS Integers, Sequences, FiniteSets, TLC

(***************************************************************************)
(* Program constants                                                       *)
(***************************************************************************)
DEFAULT_DERIVATION_PATH == "44'/60'/0'"
NUM_ADDRESSES_TO_FETCH == 2
ASK_FOR_ON_DEVICE_CONFIRMATION == FALSE
SHOULD_GET_CHAIN_CODE == FALSE
\* the literal maxTries passed to findAddressIndex
MaxTries == 10
\* the offset subtracted from the personal-message v
VOffset == 27

(***************************************************************************)
(* Bounds of the model and the input sets drawn from them                  *)
(***************************************************************************)
\* setPathIndex is called with 0..MaxPathIndex
MaxPathIndex == 1
\* a second base path a caller may set
OtherPath == "44'/60'/1'"
Paths == {DEFAULT_DERIVATION_PATH, OtherPath}
PathIndexes == 0..MaxPathIndex
\* chain ids: one whose 2*C+35 fits in a byte, one whose 2*C+35 does not
Networks == {1, 111}
\* errors the device capability may reject with
DeviceErrors == {"DEVICE_LOCKED", "USER_REJECTED"}
\* what a throwing callback raises
CallbackException == "CALLBACK_EXCEPTION"
Vias == {"wallet", "subProvider"}

(***************************************************************************)
(* Characters, hex strings and Buffers                                     *)
(***************************************************************************)
HexDigits == <<"0","1","2","3","4","5","6","7","8","9","a","b","c","d","e","f">>
UpperDigits == <<"0","1","2","3","4","5","6","7","8","9","A","B","C","D","E","F">>

\* String.prototype.toLowerCase, one character
LowerChar(ch) ==
    IF \E k \in 11..16 : UpperDigits[k] = ch
    THEN HexDigits[CHOOSE k \in 11..16 : UpperDigits[k] = ch]
    ELSE IF ch = "X" THEN "x" ELSE ch

UpperChar(ch) ==
    IF \E k \in 11..16 : HexDigits[k] = ch
    THEN UpperDigits[CHOOSE k \in 11..16 : HexDigits[k] = ch]
    ELSE ch

ToLowerCase(s) == [k \in 1..Len(s) |-> LowerChar(s[k])]

\* the upper-case spelling of a 0x-prefixed address (prefix kept)
ToUpperAddress(s) == [k \in 1..Len(s) |-> IF k <= 2 THEN s[k] ELSE UpperChar(s[k])]

HexVal(ch) == (CHOOSE k \in 1..16 : HexDigits[k] = LowerChar(ch)) - 1

\* Buffer.from(hexString, 'hex')
HexToBytes(s) == [k \in 1..(Len(s) \div 2) |-> 16 * HexVal(s[2 * k - 1]) + HexVal(s[2 * k])]

\* Buffer.prototype.toString('hex')
BytesToHex(b) ==
    [k \in 1..(2 * Len(b)) |->
        IF k % 2 = 1 THEN HexDigits[(b[(k + 1) \div 2] \div 16) + 1]
                     ELSE HexDigits[(b[k \div 2] % 16) + 1]]

\* ethUtil.stripHexPrefix
StripHexPrefix(s) ==
    IF Len(s) >= 2 /\ s[1] = "0" /\ s[2] = "x" THEN SubSeq(s, 3, Len(s)) ELSE s

RECURSIVE ToString16(_)
\* Number.prototype.toString(16)
ToString16(n) ==
    IF n < 0 THEN <<"-">> \o ToString16(0 - n)
    ELSE IF n < 16 THEN <<HexDigits[n + 1]>>
    ELSE ToString16(n \div 16) \o <<HexDigits[(n % 16) + 1]>>

RECURSIVE ToString10(_)
\* the decimal conversion of a number inside a template string
ToString10(n) ==
    IF n < 0 THEN <<"-">> \o ToString10(0 - n)
    ELSE IF n < 10 THEN <<HexDigits[n + 1]>>
    ELSE ToString10(n \div 10) \o <<HexDigits[(n % 10) + 1]>>

Undefined == <<"undefined">>
NoError == "none"

(***************************************************************************)
(* The device capability (LedgerEthConnection), an external collaborator:  *)
(* a deterministic address per path, nondeterministic failures and         *)
(* signature components.                                                   *)
(***************************************************************************)
Path(base, index) == [base |-> base, index |-> index]

\* the checksummed (mixed-case) address the device derives at a path
DeviceAddress(path) ==
    <<"0", "x", IF path.base = DEFAULT_DERIVATION_PATH THEN "A" ELSE "B", "e",
      UpperDigits[((path.index \div 16) % 16) + 1], UpperDigits[(path.index % 16) + 1]>>

\* r and s as the device returns them (hex strings)
SigR == <<"a", "1">>
SigS == <<"b", "2">>

\* v of a transaction signature as the device returns it (a hex string):
\* 0x25, 0x26 (chain 1), 0x1b (pre-EIP155), 0x0101, 0x0102 (chain 111),
\* 0x2500 (two bytes whose first byte alone reads as chain 1)
DeviceTxVs ==
    { <<"2","5">>, <<"2","6">>, <<"1","b">>,
      <<"0","1","0","1">>, <<"0","1","0","2">>, <<"2","5","0","0">> }

\* v of a personal-message signature as the device returns it, spelled in
\* decimal (27, 28, 37, 43, 282) or in 0x-prefixed hex (0x1c = 28)
DeviceMsgVs ==
    { <<"2","7">>, <<"2","8">>, <<"3","7">>, <<"4","3">>, <<"2","8","2">>,
      <<"0","x","1","c">> }

(***************************************************************************)
(* Inputs of the operations                                                *)
(***************************************************************************)
\* the byte length EthereumTx requires of a non-empty `to` field
ToFieldLength == 20

\* a 0x-prefixed address of ToFieldLength bytes, every byte spelled hi lo
Address20(hi, lo) ==
    <<"0", "x">> \o [k \in 1..(2 * ToFieldLength) |-> IF k % 2 = 1 THEN hi ELSE lo]

\* two transactions EthereumTx accepts and one it rejects (a one-byte `to`)
TxParamsSet ==
    { [nonce |-> <<"0","x","0","1">>, gasPrice |-> <<"0","x","0","a">>,
       gasLimit |-> <<"0","x","5","2">>, to |-> Address20("c", "d"),
       value |-> <<"0","x","0","7">>, data |-> <<"0","x">>],
      [nonce |-> <<"0","x","0","2">>, gasPrice |-> <<"0","x","0","b">>,
       gasLimit |-> <<"0","x","5","3">>, to |-> <<"0","x">>,
       value |-> <<"0","x">>, data |-> <<"0","x","9","9">>],
      [nonce |-> <<"0","x","0","3">>, gasPrice |-> <<"0","x","0","a">>,
       gasLimit |-> <<"0","x","5","2">>, to |-> <<"0","x","c","d">>,
       value |-> <<"0","x","0","7">>, data |-> <<"0","x">>] }

NoTxParams ==
    [nonce |-> <<>>, gasPrice |-> <<>>, gasLimit |-> <<>>, to |-> <<>>,
     value |-> <<>>, data |-> <<>>]

\* msgParams.from: absent, the lower-case address of index 1, the upper-case
\* address of index 10 (both under the default base path)
FromSet ==
    { Undefined,
      ToLowerCase(DeviceAddress(Path(DEFAULT_DERIVATION_PATH, 1))),
      ToUpperAddress(DeviceAddress(Path(DEFAULT_DERIVATION_PATH, 10))) }

\* msgParams.data, a 0x-prefixed hex string
DataSet == { <<"0","x","6","8">> }

(***************************************************************************)
(* State                                                                   *)
(***************************************************************************)
VARIABLES
    network,                         \* this._network
    derivationPath,                  \* this._derivationPath
    derivationPathIndex,             \* this._derivationPathIndex
    shouldAlwaysAskForConfirmation,  \* this._shouldAlwaysAskForConfirmation
    shouldGetChainCode,              \* this._shouldGetChainCode
    getAccounts,                     \* this.getAccounts (a bound function)
    signMessage,                     \* this.signMessage (a bound function)
    signTransaction,                 \* this.signTransaction (a bound function)
    subProvider,                     \* the object wrapWalletSubproviderFactory returns
    call,                            \* the getAccounts/signTransaction/signMessage call in flight
    test,                            \* the testConnection race in flight
    lastSetPath,                     \* history: the base path most recently given to the adapter
    lastSetPathIndex                 \* history: the path index most recently given to the adapter

config == <<network, derivationPath, derivationPathIndex,
            shouldAlwaysAskForConfirmation, shouldGetChainCode>>
bindings == <<getAccounts, signMessage, signTransaction, subProvider>>
history == <<lastSetPath, lastSetPathIndex>>
vars == <<config, bindings, history, call, test>>

\* Function.prototype.bind(this): the bound function keeps the method and the
\* object, not the object's field values
Bind(method) == [fn |-> method, this |-> "wallet"]

NoReq == [kind |-> "none", path |-> Path("", 0), confirm |-> FALSE,
          chainCode |-> FALSE, payload |-> <<>>]

\* the {r, s, v} a sign request resolved with, before any
NoResult == [r |-> <<>>, s |-> <<>>, v |-> <<>>]

\* no operation in flight.  req is the request issued last; result and deviceError
\* are what the device settled the last sign request with.  cb is the list of callback invocations of the call,
\* each [err, result, threw]; escaped: an exception left the async method (its
\* promise rejected); cfgChanged (history): a setter ran since the call started;
\* start (history): the base path and path index when a getAccounts call started
IdleCall ==
    [op |-> "idle", via |-> "none", pc |-> "idle", i |-> 0, accounts |-> <<>>,
     start |-> Path("", 0),
     txParams |-> NoTxParams, from |-> Undefined, data |-> <<>>,
     addressIndex |-> 0, localPath |-> Path("", 0),
     req |-> NoReq, nGetAddress |-> 0, nSign |-> 0,
     result |-> NoResult, deviceError |-> NoError,
     cb |-> <<>>, escaped |-> FALSE, cfgChanged |-> FALSE]

\* no testConnection in flight.  device/timer: pending, resolved/rejected, fired;
\* req is the device request while it is outstanding; first (history) is the
\* event that settled first and the error it carried
IdleTest ==
    [active |-> FALSE, locked |-> FALSE, device |-> "idle", timer |-> "idle",
     req |-> NoReq, cb |-> <<>>, first |-> [event |-> "none", err |-> NoError]]

\* one callback invocation appended to a call's list
Invoke(cb, err, result, threw) ==
    Append(cb, [err |-> err, result |-> result, threw |-> threw])

\* device.getAddress_async(path, confirm, chainCode)
GetAddressReq(path, confirm, chainCode) ==
    [kind |-> "getAddress", path |-> path, confirm |-> confirm,
     chainCode |-> chainCode, payload |-> <<>>]

\* device.signTransaction_async(path, txHex)
SignTransactionReq(path, txHex) ==
    [kind |-> "signTransaction", path |-> path, confirm |-> FALSE,
     chainCode |-> FALSE, payload |-> txHex]

\* device.signPersonalMessage_async(path, message)
SignPersonalMessageReq(path, message) ==
    [kind |-> "signPersonalMessage", path |-> path, confirm |-> FALSE,
     chainCode |-> FALSE, payload |-> message]

(***************************************************************************)
(* Construction: ledgerWalletSubproviderFactory(connection, network)       *)
(***************************************************************************)
\* wrapWalletSubproviderFactory: HookedWalletSubprovider copies the wallet's
\* three bound functions when it is constructed
WrapWalletSubprovider(g, m, t) ==
    [getAccounts |-> g, signMessage |-> m, signTransaction |-> t]

Init ==
    /\ network \in Networks
    /\ derivationPath = DEFAULT_DERIVATION_PATH
    /\ shouldAlwaysAskForConfirmation = ASK_FOR_ON_DEVICE_CONFIRMATION
    /\ derivationPathIndex = 0
    /\ shouldGetChainCode = SHOULD_GET_CHAIN_CODE
    /\ getAccounts = Bind("getAccountsAsync")
    /\ signMessage = Bind("signPersonalMessageAsync")
    /\ signTransaction = Bind("signTransactionAsync")
    /\ subProvider = WrapWalletSubprovider(Bind("getAccountsAsync"),
                                           Bind("signPersonalMessageAsync"),
                                           Bind("signTransactionAsync"))
    /\ call = IdleCall
    /\ test = IdleTest
    /\ lastSetPath = DEFAULT_DERIVATION_PATH
    /\ lastSetPathIndex = 0

(***************************************************************************)
(* Paths the operations derive                                             *)
(***************************************************************************)
\* variant: the path as captured when the adapter was constructed
getDerivationPathAtConstruction == Path(DEFAULT_DERIVATION_PATH, 0)

\* variant: the window does not start at the configured path index
GetAccountsPathNoIndex(i) == Path(derivationPath, i)

\* variant: the probes do not start at the configured path index
FindAddressPathNoIndex(i) == Path(derivationPath, i)

\* variant: the sign path is offset by the configured path index
SignMessagePathWithIndex(addressIndex) == Path(derivationPath, addressIndex + derivationPathIndex)

\* variant: the transaction path ignores the configured path index
getDerivationPathIndexZero == Path(derivationPath, 0)

getPath == derivationPath

\* `${this.getPath()}/${this._derivationPathIndex}`
getDerivationPath == Path(getPath, derivationPathIndex)

\* getAccountsAsync: `${this._derivationPath}/${i + this._derivationPathIndex}`
GetAccountsPath(i) == Path(derivationPath, i + derivationPathIndex)

\* findAddressIndex: `${this._derivationPath}/${i + this._derivationPathIndex}`
FindAddressPath(i) == Path(derivationPath, i + derivationPathIndex)

\* signPersonalMessageAsync: `${this._derivationPath}/${addressIndex}`
SignMessagePath(addressIndex) == Path(derivationPath, addressIndex)

\* testConnection: `${this._derivationPath}/0`
TestConnectionPath == Path(derivationPath, 0)

(***************************************************************************)
(* setPath / setPathIndex (directly or through the wrapper: the wrapper's  *)
(* setters are the wallet's, bound to the wallet)                          *)
(***************************************************************************)
\* history bookkeeping: a setter ran while these calls were in flight
MarkChanged(c) == IF c.op = "idle" THEN c ELSE [c EXCEPT !.cfgChanged = TRUE]

setPath(path) ==
    /\ derivationPath' = path
    /\ getAccounts' = Bind("getAccountsAsync")
    /\ signMessage' = Bind("signPersonalMessageAsync")
    /\ signTransaction' = Bind("signTransactionAsync")
    /\ lastSetPath' = path
    /\ call' = MarkChanged(call)
    /\ UNCHANGED test
    /\ UNCHANGED <<network, derivationPathIndex, shouldAlwaysAskForConfirmation,
                   shouldGetChainCode, subProvider, lastSetPathIndex>>

\* variant: setting the path index also restores the default base path
setPathIndexResetsPath(pathIndex) ==
    /\ derivationPathIndex' = pathIndex
    /\ derivationPath' = DEFAULT_DERIVATION_PATH
    /\ signMessage' = Bind("signPersonalMessageAsync")
    /\ signTransaction' = Bind("signTransactionAsync")
    /\ lastSetPathIndex' = pathIndex
    /\ call' = MarkChanged(call)
    /\ UNCHANGED test
    /\ UNCHANGED <<network, shouldAlwaysAskForConfirmation,
                   shouldGetChainCode, getAccounts, subProvider, lastSetPath>>

setPathIndex(pathIndex) ==
    /\ derivationPathIndex' = pathIndex
    /\ signMessage' = Bind("signPersonalMessageAsync")
    /\ signTransaction' = Bind("signTransactionAsync")
    /\ lastSetPathIndex' = pathIndex
    /\ call' = MarkChanged(call)
    /\ UNCHANGED test
    /\ UNCHANGED <<network, derivationPath, shouldAlwaysAskForConfirmation,
                   shouldGetChainCode, getAccounts, subProvider, lastSetPath>>

\* the bound function a caller reaches through the wallet or the wrapper
Bound(via, name) ==
    IF via = "wallet"
    THEN (CASE name = "getAccounts" -> getAccounts
            [] name = "signMessage" -> signMessage
            [] OTHER -> signTransaction)
    ELSE (CASE name = "getAccounts" -> subProvider.getAccounts
            [] name = "signMessage" -> subProvider.signMessage
            [] OTHER -> subProvider.signTransaction)

\* a call record freshly started through `via`
NewCall(op, via) == [IdleCall EXCEPT !.op = op, !.via = via]

\* req issued by call c: the request and the per-kind counters
Issue(c, req) ==
    [c EXCEPT !.req = req,
              !.nGetAddress = IF req.kind = "getAddress" THEN @ + 1 ELSE @,
              !.nSign = IF req.kind = "getAddress" THEN @ ELSE @ + 1]

(***************************************************************************)
(* getAccountsAsync                                                        *)
(***************************************************************************)
GetAccountsStart(via) ==
    /\ call.op = "idle"
    /\ Bound(via, "getAccounts").fn = "getAccountsAsync"
    /\ call' = [Issue(NewCall("getAccounts", via),
                      GetAddressReq(GetAccountsPath(0), shouldAlwaysAskForConfirmation,
                                    shouldGetChainCode))
                EXCEPT !.pc = "awaitGetAddress",
                       !.start = Path(derivationPath, derivationPathIndex)]
    /\ UNCHANGED <<config, bindings, history, test>>

\* the awaited getAddress_async resolves: push, then the next fetch or the report
GetAccountsResolve(threw) ==
    /\ call.op = "getAccounts"
    /\ call.pc = "awaitGetAddress"
    /\ LET accounts == Append(call.accounts, ToLowerCase(DeviceAddress(call.req.path)))
           i == call.i + 1
       IN IF i < NUM_ADDRESSES_TO_FETCH
          THEN /\ ~threw
               /\ call' = [Issue(call, GetAddressReq(GetAccountsPath(i),
                                                     shouldAlwaysAskForConfirmation,
                                                     shouldGetChainCode))
                           EXCEPT !.accounts = accounts, !.i = i]
          ELSE call' = [call EXCEPT !.accounts = accounts, !.i = i, !.pc = "done",
                                    !.cb = Invoke(@, NoError, accounts, threw),
                                    !.escaped = threw]
    /\ UNCHANGED <<config, bindings, history, test>>

\* variant: the error is reported together with the addresses fetched so far
GetAccountsRejectPartial(err, threw) ==
    /\ call.op = "getAccounts"
    /\ call.pc = "awaitGetAddress"
    /\ call' = [call EXCEPT !.pc = "done", !.deviceError = err,
                            !.cb = Invoke(@, err, call.accounts, threw),
                            !.escaped = threw]
    /\ UNCHANGED <<config, bindings, history, test>>

\* the awaited getAddress_async rejects: report the error, return
GetAccountsReject(err, threw) ==
    /\ call.op = "getAccounts"
    /\ call.pc = "awaitGetAddress"
    /\ call' = [call EXCEPT !.pc = "done", !.deviceError = err,
                            !.cb = Invoke(@, err, Undefined, threw),
                            !.escaped = threw]
    /\ UNCHANGED <<config, bindings, history, test>>

(***************************************************************************)
(* signTransactionAsync                                                    *)
(***************************************************************************)
\* ethUtil.toBuffer of a 0x-prefixed hex string
ToBuffer(hex) == HexToBytes(StripHexPrefix(hex))

\* what new EthereumTx(txParams) throws when a field has the wrong byte length
InvalidTxField == "The field to must have byte length of 20"

\* new EthereumTx(txParams) throws: `to` is neither empty nor ToFieldLength bytes
BuildFails(txParams) == Len(ToBuffer(txParams.to)) \notin {0, ToFieldLength}

\* new EthereumTx(txParams), then the EIP155 placeholders:
\* raw[6] = Buffer.from([this._network]), raw[7] = raw[8] = empty
UnsignedTx(txParams) ==
    [nonce |-> ToBuffer(txParams.nonce), gasPrice |-> ToBuffer(txParams.gasPrice),
     gasLimit |-> ToBuffer(txParams.gasLimit), to |-> ToBuffer(txParams.to),
     value |-> ToBuffer(txParams.value), data |-> ToBuffer(txParams.data),
     v |-> <<network % 256>>, r |-> <<>>, s |-> <<>>]

\* tx.serialize().toString('hex'): the raw fields in order, each as hex; the
\* field boundaries stand for the RLP length prefixes
SerializeHex(tx) ==
    << BytesToHex(tx.nonce), BytesToHex(tx.gasPrice), BytesToHex(tx.gasLimit),
       BytesToHex(tx.to), BytesToHex(tx.value), BytesToHex(tx.data),
       BytesToHex(tx.v), BytesToHex(tx.r), BytesToHex(tx.s) >>

\* tx.r, tx.s, tx.v = Buffer.from(result.*, 'hex')
AssignSignature(tx, result) ==
    [tx EXCEPT !.r = HexToBytes(result.r), !.s = HexToBytes(result.s),
               !.v = HexToBytes(result.v)]

\* Math.floor((tx.v[0] - 35) / 2)
SignedChainId(tx) == (tx.v[1] - 35) \div 2

\* `0x${tx.serialize().toString('hex')}`
SignedTxHex(tx) == << <<"0", "x">> >> \o SerializeHex(tx)

TooOldFirmware == "TOO_OLD_LEDGER_FIRMWARE"

\* lines 100-107 run before the try block: an exception of the transaction's
\* construction leaves signTransactionAsync (its promise rejects)
SignTransactionStart(via, txParams) ==
    /\ call.op = "idle"
    /\ Bound(via, "signTransaction").fn = "signTransactionAsync"
    /\ IF BuildFails(txParams)
       THEN call' = [NewCall("signTransaction", via)
                     EXCEPT !.pc = "done", !.txParams = txParams, !.escaped = TRUE]
       ELSE call' = [Issue(NewCall("signTransaction", via),
                           SignTransactionReq(getDerivationPath,
                                              SerializeHex(UnsignedTx(txParams))))
                     EXCEPT !.pc = "awaitSignTransaction", !.txParams = txParams]
    /\ UNCHANGED <<config, bindings, history, test>>

\* the awaited signTransaction_async resolves with {r, s, v}.  Both callback
\* invocations are inside the try block: an exception the callback raises is
\* caught and the callback is invoked again with it
SignTransactionResolve(v, threw, threwAgain) ==
    /\ call.op = "signTransaction"
    /\ call.pc = "awaitSignTransaction"
    /\ LET result == [r |-> SigR, s |-> SigS, v |-> v]
           tx == AssignSignature(UnsignedTx(call.txParams), result)
           first == IF SignedChainId(tx) # network
                    THEN Invoke(call.cb, TooOldFirmware, Undefined, threw)
                    ELSE Invoke(call.cb, NoError, SignedTxHex(tx), threw)
       IN IF threw
          THEN call' = [call EXCEPT !.pc = "done", !.result = result,
                            !.cb = Invoke(first, CallbackException, Undefined, threwAgain),
                            !.escaped = threwAgain]
          ELSE /\ ~threwAgain
               /\ call' = [call EXCEPT !.pc = "done", !.result = result, !.cb = first]
    /\ UNCHANGED <<config, bindings, history, test>>

\* the awaited signTransaction_async rejects: the catch block reports the error
SignTransactionReject(err, threw) ==
    /\ call.op = "signTransaction"
    /\ call.pc = "awaitSignTransaction"
    /\ call' = [call EXCEPT !.pc = "done", !.deviceError = err,
                            !.cb = Invoke(@, err, Undefined, threw),
                            !.escaped = threw]
    /\ UNCHANGED <<config, bindings, history, test>>

(***************************************************************************)
(* signPersonalMessageAsync and findAddressIndex                           *)
(***************************************************************************)
ExhaustedTries == "Exhasuted max tries searching for address"

\* address.toLowerCase() === result.address.toLowerCase()
Matched(address, resultAddress) == ToLowerCase(address) = ToLowerCase(resultAddress)

RECURSIVE DigitsToNumber(_, _)
\* the number a digit string spells in the radix
DigitsToNumber(digits, radix) ==
    IF Len(digits) = 0 THEN 0
    ELSE radix * DigitsToNumber(SubSeq(digits, 1, Len(digits) - 1), radix)
           + HexVal(digits[Len(digits)])

\* _.parseInt(string): radix 16 for a 0x prefix, radix 10 otherwise
ParseInt(string) ==
    IF Len(string) >= 2 /\ string[1] = "0" /\ LowerChar(string[2]) = "x"
    THEN DigitsToNumber(SubSeq(string, 3, Len(string)), 16)
    ELSE DigitsToNumber(string, 10)

\* v = parseInt(result.v) - 27; vHex = v.toString(16);
\* if (vHex.length < 2) vHex = `0${v}`
VHex(resultV) ==
    LET v == ParseInt(resultV) - VOffset
        vHex == ToString16(v)
    IN IF Len(vHex) < 2 THEN <<"0">> \o ToString10(v) ELSE vHex

\* `0x${result.r}${result.s}${vHex}`
Signature(result) == <<"0", "x">> \o result.r \o result.s \o VHex(result.v)

\* lines 140-143: the local derivationPath, then the getAddress_async for the log
FetchSignAddress(c, addressIndex) ==
    [Issue(c, GetAddressReq(SignMessagePath(addressIndex),
                            shouldAlwaysAskForConfirmation, shouldGetChainCode))
     EXCEPT !.pc = "awaitAddress", !.addressIndex = addressIndex,
            !.localPath = SignMessagePath(addressIndex)]

SignMessageStart(via, from, data) ==
    /\ call.op = "idle"
    /\ Bound(via, "signMessage").fn = "signPersonalMessageAsync"
    /\ LET c == [NewCall("signMessage", via) EXCEPT !.from = from, !.data = data]
       IN IF from # Undefined
          THEN call' = [Issue(c, GetAddressReq(FindAddressPath(0),
                                               shouldAlwaysAskForConfirmation,
                                               shouldGetChainCode))
                        EXCEPT !.pc = "awaitFind"]
          ELSE call' = FetchSignAddress(c, 0)
    /\ UNCHANGED <<config, bindings, history, test>>

\* findAddressIndex: a probe resolves.  A match returns i; otherwise the next
\* probe, or the exhausted error thrown into signPersonalMessageAsync's catch
FindAddressResolve(threw) ==
    /\ call.op = "signMessage"
    /\ call.pc = "awaitFind"
    /\ IF Matched(call.from, DeviceAddress(call.req.path))
       THEN /\ ~threw
            /\ call' = FetchSignAddress(call, call.i)
       ELSE IF call.i + 1 < MaxTries
       THEN /\ ~threw
            /\ call' = [Issue(call, GetAddressReq(FindAddressPath(call.i + 1),
                                                  shouldAlwaysAskForConfirmation,
                                                  shouldGetChainCode))
                        EXCEPT !.i = call.i + 1]
       ELSE call' = [call EXCEPT !.i = call.i + 1, !.pc = "done",
                                 !.cb = Invoke(@, ExhaustedTries, Undefined, threw),
                                 !.escaped = threw]
    /\ UNCHANGED <<config, bindings, history, test>>

\* variant: a failed probe is skipped and the search goes on
FindAddressRejectContinues(err, threw) ==
    /\ call.op = "signMessage"
    /\ call.pc = "awaitFind"
    /\ IF call.i + 1 < MaxTries
       THEN /\ ~threw
            /\ call' = [Issue(call, GetAddressReq(FindAddressPath(call.i + 1),
                                                  shouldAlwaysAskForConfirmation,
                                                  shouldGetChainCode))
                        EXCEPT !.i = call.i + 1, !.deviceError = err]
       ELSE call' = [call EXCEPT !.pc = "done", !.deviceError = err,
                                 !.cb = Invoke(@, err, Undefined, threw),
                                 !.escaped = threw]
    /\ UNCHANGED <<config, bindings, history, test>>

\* findAddressIndex: a probe rejects; the error is rethrown and reported
FindAddressReject(err, threw) ==
    /\ call.op = "signMessage"
    /\ call.pc = "awaitFind"
    /\ call' = [call EXCEPT !.pc = "done", !.deviceError = err,
                            !.cb = Invoke(@, err, Undefined, threw),
                            !.escaped = threw]
    /\ UNCHANGED <<config, bindings, history, test>>

\* the getAddress_async of line 141 resolves: the sign request goes out at the
\* local derivationPath
SignAddressResolve ==
    /\ call.op = "signMessage"
    /\ call.pc = "awaitAddress"
    /\ call' = [Issue(call, SignPersonalMessageReq(call.localPath,
                                                   StripHexPrefix(call.data)))
                EXCEPT !.pc = "awaitSignMessage"]
    /\ UNCHANGED <<config, bindings, history, test>>

SignAddressReject(err, threw) ==
    /\ call.op = "signMessage"
    /\ call.pc = "awaitAddress"
    /\ call' = [call EXCEPT !.pc = "done", !.deviceError = err,
                            !.cb = Invoke(@, err, Undefined, threw),
                            !.escaped = threw]
    /\ UNCHANGED <<config, bindings, history, test>>

\* signPersonalMessage_async resolves with {r, s, v}.  The success callback is
\* inside the try block: an exception it raises is caught and reported again
SignMessageResolve(v, threw, threwAgain) ==
    /\ call.op = "signMessage"
    /\ call.pc = "awaitSignMessage"
    /\ LET result == [r |-> SigR, s |-> SigS, v |-> v]
           first == Invoke(call.cb, NoError, Signature(result), threw)
       IN IF threw
          THEN call' = [call EXCEPT !.pc = "done", !.result = result,
                            !.cb = Invoke(first, CallbackException, Undefined, threwAgain),
                            !.escaped = threwAgain]
          ELSE /\ ~threwAgain
               /\ call' = [call EXCEPT !.pc = "done", !.result = result, !.cb = first]
    /\ UNCHANGED <<config, bindings, history, test>>

SignMessageReject(err, threw) ==
    /\ call.op = "signMessage"
    /\ call.pc = "awaitSignMessage"
    /\ call' = [call EXCEPT !.pc = "done", !.deviceError = err,
                            !.cb = Invoke(@, err, Undefined, threw),
                            !.escaped = threw]
    /\ UNCHANGED <<config, bindings, history, test>>

(***************************************************************************)
(* testConnection: the device promise and the timer each carry a           *)
(* then-handler and a chained catch-handler guarded by the local `locked`  *)
(***************************************************************************)
\* history bookkeeping: the event is recorded if it is the first to settle
Settle(t, event, err) ==
    IF t.first.event = "none" THEN [t EXCEPT !.first = [event |-> event, err |-> err]] ELSE t

\* variant: the handlers do not consult `locked`
HandlerUnguarded(t, err, connected, threw, threwAgain) ==
    IF ~threw
    THEN [t EXCEPT !.locked = TRUE,
                   !.cb = Append(@, [err |-> err, connected |-> connected, threw |-> FALSE])]
    ELSE [t EXCEPT !.locked = ~threwAgain,
                   !.cb = @ \o << [err |-> err, connected |-> connected, threw |-> TRUE],
                                  [err |-> CallbackException, connected |-> FALSE,
                                   threw |-> threwAgain] >>]

\* (locked || callback(err, connected)); locked = true
\* and, when the callback raised, the chained catch handler:
\* (locked || callback(raised, false)); locked = true
\* An exception leaves the handler before its locked = true.
Handler(t, err, connected, threw, threwAgain) ==
    IF t.locked
    THEN t
    ELSE IF ~threw
    THEN [t EXCEPT !.locked = TRUE,
                   !.cb = Append(@, [err |-> err, connected |-> connected, threw |-> FALSE])]
    ELSE [t EXCEPT !.locked = ~threwAgain,
                   !.cb = @ \o << [err |-> err, connected |-> connected, threw |-> TRUE],
                                  [err |-> CallbackException, connected |-> FALSE,
                                   threw |-> threwAgain] >>]

\* the catch handler alone (the promise rejected, the then-handler is skipped)
CatchHandler(t, err, threw) ==
    IF t.locked
    THEN t
    ELSE [t EXCEPT !.locked = ~threw,
                   !.cb = Append(@, [err |-> err, connected |-> FALSE, threw |-> threw])]

\* testConnection returns once both handlers are attached; the race is not awaited
TestConnectionStart ==
    /\ ~test.active
    /\ test' = [IdleTest EXCEPT !.active = TRUE, !.device = "pending",
                                !.timer = "pending",
                                !.req = GetAddressReq(TestConnectionPath, FALSE, FALSE)]
    /\ UNCHANGED <<config, bindings, history, call>>

\* connectionPromise resolves
TestDeviceResolve(threw, threwAgain) ==
    /\ test.active
    /\ test.device = "pending"
    /\ (test.locked => ~threw)
    /\ (~threw => ~threwAgain)
    /\ test' = [Handler(Settle(test, "deviceSuccess", NoError), NoError, TRUE, threw, threwAgain)
                EXCEPT !.device = "resolved", !.req = NoReq]
    /\ UNCHANGED <<config, bindings, history, call>>

\* connectionPromise rejects
TestDeviceReject(err, threw) ==
    /\ test.active
    /\ test.device = "pending"
    /\ (test.locked => ~threw)
    /\ test' = [CatchHandler(Settle(test, "deviceFailure", err), err, threw)
                EXCEPT !.device = "rejected", !.req = NoReq]
    /\ UNCHANGED <<config, bindings, history, call>>

\* variant: the timer settles without a handler reporting it
TestTimerFireSilent(threw, threwAgain) ==
    /\ test.active
    /\ test.timer = "pending"
    /\ ~threw
    /\ ~threwAgain
    /\ test' = [Settle(test, "timer", NoError) EXCEPT !.timer = "fired"]
    /\ UNCHANGED <<config, bindings, history, call>>

\* the timer fires: timeoutPromise resolves
TestTimerFire(threw, threwAgain) ==
    /\ test.active
    /\ test.timer = "pending"
    /\ (test.locked => ~threw)
    /\ (~threw => ~threwAgain)
    /\ test' = [Handler(Settle(test, "timer", NoError), NoError, FALSE, threw, threwAgain)
                EXCEPT !.timer = "fired"]
    /\ UNCHANGED <<config, bindings, history, call>>

\* both branches have settled; the race is over
TestSettled ==
    /\ test.active
    /\ test.device # "pending"
    /\ test.timer = "fired"
    /\ test' = IdleTest
    /\ UNCHANGED <<config, bindings, history, call>>

(***************************************************************************)
(* isSupported: callback(undefined, true), with no device request          *)
(***************************************************************************)
isSupported(threw) ==
    /\ call.op = "idle"
    /\ call' = [NewCall("isSupported", "wallet")
                EXCEPT !.pc = "done", !.cb = Invoke(@, NoError, TRUE, threw),
                       !.escaped = threw]
    /\ UNCHANGED <<config, bindings, history, test>>

\* the caller lets go of a finished call
Return ==
    /\ call.pc = "done"
    /\ call' = IdleCall
    /\ UNCHANGED <<config, bindings, history, test>>

Next ==
    \/ \E path \in Paths : setPath(path)
    \/ \E pathIndex \in PathIndexes : setPathIndex(pathIndex)
    \/ \E via \in Vias : GetAccountsStart(via)
    \/ \E threw \in BOOLEAN : GetAccountsResolve(threw)
    \/ \E err \in DeviceErrors, threw \in BOOLEAN : GetAccountsReject(err, threw)
    \/ \E via \in Vias, txParams \in TxParamsSet : SignTransactionStart(via, txParams)
    \/ \E v \in DeviceTxVs, threw \in BOOLEAN, threwAgain \in BOOLEAN :
          SignTransactionResolve(v, threw, threwAgain)
    \/ \E err \in DeviceErrors, threw \in BOOLEAN : SignTransactionReject(err, threw)
    \/ \E via \in Vias, from \in FromSet, data \in DataSet : SignMessageStart(via, from, data)
    \/ \E threw \in BOOLEAN : FindAddressResolve(threw)
    \/ \E err \in DeviceErrors, threw \in BOOLEAN : FindAddressReject(err, threw)
    \/ SignAddressResolve
    \/ \E err \in DeviceErrors, threw \in BOOLEAN : SignAddressReject(err, threw)
    \/ \E v \in DeviceMsgVs, threw \in BOOLEAN, threwAgain \in BOOLEAN :
          SignMessageResolve(v, threw, threwAgain)
    \/ \E err \in DeviceErrors, threw \in BOOLEAN : SignMessageReject(err, threw)
    \/ TestConnectionStart
    \/ \E threw \in BOOLEAN, threwAgain \in BOOLEAN : TestDeviceResolve(threw, threwAgain)
    \/ \E err \in DeviceErrors, threw \in BOOLEAN : TestDeviceReject(err, threw)
    \/ \E threw \in BOOLEAN, threwAgain \in BOOLEAN : TestTimerFire(threw, threwAgain)
    \/ TestSettled
    \/ \E threw \in BOOLEAN : isSupported(threw)
    \/ Return

Spec == Init /\ [][Next]_vars

\* a timer set with setTimeout fires: the step of the timer's handler is taken
\* once it is pending.  Nothing is assumed of the device or of the caller
TimerFires == \E threw \in BOOLEAN, threwAgain \in BOOLEAN : TestTimerFire(threw, threwAgain)

FairSpec == Init /\ [][Next]_vars /\ WF_vars(TimerFires)

(***************************************************************************)
(* Claims                                                                  *)
(***************************************************************************)
\* a testConnection race in which at least one branch has settled
TestReported == test.active /\ (test.device # "pending" \/ test.timer = "fired")

\* C1: for every testConnection call and every ordering of the device
\* settlement and the timer firing, the callback is invoked exactly once in
\* total: once a branch has settled the callback has been invoked once, and
\* the later settlement of the other branch does not invoke it again.
C1_CallbackExactlyOnce == TestReported => Len(test.cb) = 1

RECURSIVE BytesToNumber(_)
\* the big-endian number a Buffer holds
BytesToNumber(b) ==
    IF Len(b) = 0 THEN 0
    ELSE 256 * BytesToNumber(SubSeq(b, 1, Len(b) - 1)) + b[Len(b)]

\* the number a transaction-signature v (hex string) spells
NumericV(hex) == BytesToNumber(HexToBytes(hex))

\* a signTransaction call whose sign request the device resolved
SignTransactionResolved ==
    /\ call.op = "signTransaction"
    /\ call.pc = "done"
    /\ call.nSign = 1
    /\ call.deviceError = NoError

\* C2: for every signTransaction call with configured chain id C, if the
\* device returns a v for which floor((v - 35) / 2) differs from C, the
\* callback is invoked with TOO_OLD_LEDGER_FIRMWARE and is never invoked with
\* a signed transaction for that call.
C2_MismatchedVRejected ==
    (SignTransactionResolved /\ (NumericV(call.result.v) - 35) \div 2 # network)
        => /\ call.cb[1].err = TooOldFirmware
           /\ \A k \in 1..Len(call.cb) : call.cb[k].err # NoError

\* C3: for every configured chain id C of the bounded set (also one whose
\* 2*C + 35 does not fit in one byte) and a device that returns v = 2*C + 35
\* or v = 2*C + 36, signTransaction reports success with a 0x-prefixed signed
\* transaction carrying the original fields and the assigned r, s, v, and does
\* not report the firmware-incompatibility error.
C3_ConsistentVAccepted ==
    (SignTransactionResolved /\ NumericV(call.result.v) \in {2 * network + 35, 2 * network + 36})
        => /\ \A k \in 1..Len(call.cb) : call.cb[k].err # TooOldFirmware
           /\ call.cb[1].err = NoError
           /\ call.cb[1].result =
                << <<"0", "x">>,
                   StripHexPrefix(call.txParams.nonce), StripHexPrefix(call.txParams.gasPrice),
                   StripHexPrefix(call.txParams.gasLimit), StripHexPrefix(call.txParams.to),
                   StripHexPrefix(call.txParams.value), StripHexPrefix(call.txParams.data),
                   call.result.v, call.result.r, call.result.s >>

\* a signMessage call with `from` set, under one configuration throughout, whose
\* sign-personal-message request is out
SignRequestedWithFrom ==
    /\ call.op = "signMessage"
    /\ call.pc = "awaitSignMessage"
    /\ call.from # Undefined
    /\ call.req.kind = "signPersonalMessage"
    /\ ~call.cfgChanged

\* C4: for every configured path index p (zero or non-zero) and every
\* signMessage call whose `from` equals the address the device returns for one
\* of the probed paths, the sign-personal-message request is issued at exactly
\* the derivation path whose address matched `from`, never at a path whose
\* address differs from `from`.
C4_SignsAtMatchedPath ==
    SignRequestedWithFrom
        => ToLowerCase(DeviceAddress(call.req.path)) = ToLowerCase(call.from)

\* the address of the j-th index of the configured window, lower-cased
WindowAddress(j) ==
    ToLowerCase(DeviceAddress([base |-> derivationPath, index |-> derivationPathIndex + j]))

\* the offsets of the configured window whose address is `from`, ignoring case
MatchingOffsets(from) == {j \in 0..(MaxTries - 1) : WindowAddress(j) = ToLowerCase(from)}

\* a signMessage call with `from` set during which no setter ran
StableSearch ==
    /\ call.op = "signMessage"
    /\ call.from # Undefined
    /\ ~call.cfgChanged

\* C5: in signMessage with `from` set, address resolution issues at most 10
\* get-address probes, at consecutive indices starting at the configured path
\* index, and stops at the first case-insensitive match; if none of the 10
\* probed addresses equals `from`, the callback receives the address-not-found
\* error and no sign-personal-message request is ever issued for that call.
C5_BoundedSearch ==
    /\ (call.op = "signMessage" /\ call.pc = "awaitFind")
         => /\ call.i < MaxTries
            /\ call.nGetAddress = call.i + 1
            /\ call.nSign = 0
            /\ call.req.kind = "getAddress"
    /\ (StableSearch /\ call.pc = "awaitFind")
         => /\ call.req.path = [base |-> derivationPath, index |-> derivationPathIndex + call.i]
            /\ \A j \in MatchingOffsets(call.from) : j >= call.i
    /\ (StableSearch /\ call.pc \in {"awaitAddress", "awaitSignMessage"})
         => /\ call.addressIndex \in MatchingOffsets(call.from)
            /\ \A j \in MatchingOffsets(call.from) : j >= call.addressIndex
            /\ call.nGetAddress = call.addressIndex + 2
    /\ (StableSearch /\ call.pc = "done" /\ MatchingOffsets(call.from) = {})
         => /\ call.nSign = 0
            /\ call.nGetAddress <= MaxTries
            /\ (call.deviceError = NoError
                  => /\ call.nGetAddress = MaxTries
                     /\ Len(call.cb) = 1
                     /\ call.cb[1].err = ExhaustedTries
                     /\ call.cb[1].result = Undefined)
    /\ (call.op = "signMessage" /\ call.pc = "done" /\ Len(call.cb) > 0
          /\ call.cb[1].err = ExhaustedTries)
         => call.nSign = 0 /\ call.nGetAddress = MaxTries

\* C5 witness: ten probes from index 0 found no match (`from` is the address of
\* index 10) and the search reported its error
C5_Witness ==
    /\ StableSearch
    /\ call.pc = "done"
    /\ derivationPath = DEFAULT_DERIVATION_PATH
    /\ derivationPathIndex = 0
    /\ call.from = ToUpperAddress(DeviceAddress([base |-> DEFAULT_DERIVATION_PATH, index |-> 10]))
    /\ call.cb[1].err = ExhaustedTries

\* every character is its own lower-case form
IsLowerCase(str) == \A k \in 1..Len(str) : str[k] \notin {"A", "B", "C", "D", "E", "F", "X"}

\* a getAccounts call during which no setter ran
StableGetAccounts == call.op = "getAccounts" /\ ~call.cfgChanged

\* C6: for every configured base path and path index p, a getAccounts call in
\* which all device requests succeed issues exactly N = 2 get-address requests,
\* at basePath/p and basePath/(p+1) in that order, on every call, and reports
\* exactly those N addresses, lower-cased, in increasing index order.
C6_GetAccountsWindow ==
    /\ (StableGetAccounts /\ call.pc = "awaitGetAddress")
         => /\ call.i < NUM_ADDRESSES_TO_FETCH
            /\ call.nGetAddress = call.i + 1
            /\ call.req = [kind |-> "getAddress",
                           path |-> [base |-> derivationPath,
                                     index |-> derivationPathIndex + call.i],
                           confirm |-> shouldAlwaysAskForConfirmation,
                           chainCode |-> FALSE, payload |-> <<>>]
            /\ call.accounts = [j \in 1..call.i |-> WindowAddress(j - 1)]
    /\ (StableGetAccounts /\ call.pc = "done" /\ call.deviceError = NoError)
         => /\ call.nGetAddress = NUM_ADDRESSES_TO_FETCH
            /\ call.nSign = 0
            /\ Len(call.cb) = 1
            /\ call.cb[1].err = NoError
            /\ call.cb[1].result = [j \in 1..NUM_ADDRESSES_TO_FETCH |-> WindowAddress(j - 1)]
            /\ \A j \in 1..Len(call.cb[1].result) : IsLowerCase(call.cb[1].result[j])

\* C6 witness: a getAccounts call through the wrapper reported its two accounts
\* under a base path and a path index that differ from the constructed ones
C6_Witness ==
    /\ StableGetAccounts
    /\ call.pc = "done"
    /\ call.deviceError = NoError
    /\ call.via = "subProvider"
    /\ derivationPath = OtherPath
    /\ derivationPathIndex = MaxPathIndex
    /\ Len(call.cb[1].result) = NUM_ADDRESSES_TO_FETCH

\* a getAccounts call one of whose get-address requests the device rejected
GetAccountsFailed ==
    /\ call.op = "getAccounts"
    /\ call.pc = "done"
    /\ call.deviceError # NoError

\* C7: if the k-th get-address request of a getAccounts call fails (any k in
\* 1..N), the callback is invoked once with that device error and with no
\* account list (not the k-1 addresses already fetched), and the call issues
\* no further get-address request after the failing one.
C7_GetAccountsAborts ==
    GetAccountsFailed
        => /\ Len(call.cb) = 1
           /\ call.cb[1].err = call.deviceError
           /\ call.cb[1].result = Undefined
           /\ call.nGetAddress = Len(call.accounts) + 1
           /\ call.nGetAddress <= NUM_ADDRESSES_TO_FETCH
           /\ call.nSign = 0

\* C7 witness: the second fetch failed after the first address was fetched
C7_Witness ==
    /\ GetAccountsFailed
    /\ Len(call.accounts) = 1
    /\ call.nGetAddress = 2

\* a call started after the last setter call, with a request issued
StartedAfterLastSet == call.op # "idle" /\ ~call.cfgChanged /\ call.req.kind # "none"

\* C8: after any sequence of setPath and setPathIndex calls, on the adapter or
\* through the wrapper, every getAccounts, signTransaction and signMessage call
\* started afterwards derives its device request paths from the most recently
\* set base path and path index, never from the values held at construction.
C8_CurrentPathUsed ==
    StartedAfterLastSet
        => /\ call.req.path.base = lastSetPath
           /\ call.op = "getAccounts"
                => call.req.path.index = lastSetPathIndex + call.nGetAddress - 1
           /\ call.op = "signTransaction"
                => call.req.path.index = lastSetPathIndex
           /\ (call.op = "signMessage" /\ call.pc = "awaitFind")
                => call.req.path.index = lastSetPathIndex + call.nGetAddress - 1
           /\ (call.op = "signMessage" /\ call.addressIndex > 0)
                => \E j \in 1..(MaxTries - 1) :
                      /\ call.addressIndex = j
                      /\ ToLowerCase(DeviceAddress([base |-> lastSetPath,
                                                    index |-> lastSetPathIndex + j]))
                           = ToLowerCase(call.from)

\* C8 witness: a signTransaction call through the wrapper has its request out
\* after both setters gave values other than the constructed ones
C8_Witness ==
    /\ StartedAfterLastSet
    /\ call.op = "signTransaction"
    /\ call.pc = "awaitSignTransaction"
    /\ call.via = "subProvider"
    /\ lastSetPath = OtherPath
    /\ lastSetPathIndex = MaxPathIndex

\* a signMessage call whose sign-personal-message request the device resolved
SignMessageResolved ==
    /\ call.op = "signMessage"
    /\ call.pc = "done"
    /\ call.nSign > 0
    /\ call.deviceError = NoError

\* the number a personal-message v spells
MessageV == ParseInt(call.result.v)

\* C9: for every device-returned message-signature v in 27..282, the final
\* signature reported by signMessage is 0x + r + s followed by exactly two
\* characters: the zero-padded lowercase hexadecimal encoding of v - 27.
C9_TwoCharHexV ==
    (SignMessageResolved /\ MessageV \in 27..282)
        => /\ call.cb[1].err = NoError
           /\ call.cb[1].result =
                <<"0", "x">> \o call.result.r \o call.result.s
                  \o << HexDigits[((MessageV - 27) \div 16) + 1],
                        HexDigits[((MessageV - 27) % 16) + 1] >>

\* a signMessage call with `from` unset
SignWithoutFrom == call.op = "signMessage" /\ call.from = Undefined

\* C10 as claimed: a signMessage call with `from` unset requests the signature
\* at path basePath/0, whatever path index is configured, and issues no
\* get-address request to the device before the sign-personal-message request.
C10_NoGetAddressBeforeSign ==
    (SignWithoutFrom /\ call.pc = "awaitSignMessage")
        => /\ call.req.kind = "signPersonalMessage"
           /\ call.req.path.index = 0
           /\ call.nGetAddress = 0

\* C10 as amended: a signMessage call with `from` unset requests the signature
\* at path basePath/0, whatever path index is configured, after exactly one
\* get-address request, issued at that same path basePath/0; it probes no other
\* index.
C10_OneGetAddressBeforeSign ==
    SignWithoutFrom
        => /\ call.addressIndex = 0
           /\ call.localPath.index = 0
           /\ call.nGetAddress = 1
           /\ ~call.cfgChanged => call.localPath.base = derivationPath
           /\ call.pc = "awaitAddress"
                => /\ call.nSign = 0
                   /\ call.req.kind = "getAddress"
                   /\ call.req.path = call.localPath
           /\ call.pc = "awaitSignMessage"
                => /\ call.nSign = 1
                   /\ call.req.kind = "signPersonalMessage"
                   /\ call.req.path = call.localPath
           /\ call.nSign <= 1

\* C10 witness: the sign request of a call with `from` unset is out while the
\* configured path index is not 0
C10_Witness ==
    /\ SignWithoutFrom
    /\ call.pc = "awaitSignMessage"
    /\ ~call.cfgChanged
    /\ derivationPathIndex = MaxPathIndex
    /\ call.req.path = [base |-> derivationPath, index |-> 0]

\* what the first report of a race must be, given the event that settled first
ReportFor(first) ==
    CASE first.event = "deviceSuccess" -> [err |-> NoError, connected |-> TRUE]
      [] first.event = "timer" -> [err |-> NoError, connected |-> FALSE]
      [] OTHER -> [err |-> first.err, connected |-> FALSE]

\* C11: the report of testConnection depends only on which event settles
\* first: device get-address success first gives (no error, connected=true);
\* the timer first gives (no error, connected=false); device failure first
\* gives (that error, connected=false).  A report that returns normally is the
\* only one, whatever settles afterwards.
C11_ReportByFirstSettled ==
    TestReported
        => /\ test.first.event \in {"deviceSuccess", "timer", "deviceFailure"}
           /\ test.first.event = "deviceFailure" <=> test.first.err \in DeviceErrors
           /\ Len(test.cb) >= 1
           /\ test.cb[1].err = ReportFor(test.first).err
           /\ test.cb[1].connected = ReportFor(test.first).connected
           /\ ~test.cb[1].threw => Len(test.cb) = 1

\* C11 witness: the timer fired first and the device resolved afterwards; the
\* report is still the timer's
C11_Witness ==
    /\ test.active
    /\ test.first.event = "timer"
    /\ test.device = "resolved"
    /\ test.cb = << [err |-> NoError, connected |-> FALSE, threw |-> FALSE] >>

\* a signMessage call whose address search ran out of tries
SearchExhausted ==
    /\ call.op = "signMessage"
    /\ call.from # Undefined
    /\ call.deviceError = NoError
    /\ call.nSign = 0
    /\ call.i = MaxTries

\* C12: for getAccounts, signTransaction and signMessage, every failure that
\* occurs during the call (a device request failing, an exhausted address
\* search, or a failure while building or serializing the transaction from
\* txParams) is delivered to the caller by invoking the callback with that
\* error; no call ends with its failure escaping the operation and its
\* callback never invoked.
C12_FailuresReported ==
    call.pc = "done"
        => /\ Len(call.cb) >= 1
           /\ call.deviceError # NoError => call.cb[1].err = call.deviceError
           /\ SearchExhausted => call.cb[1].err = ExhaustedTries
           /\ (call.op = "signTransaction" /\ BuildFails(call.txParams))
                => call.cb[1].err = InvalidTxField

\* the device requests of the adapter that have not settled yet
OutstandingRequests ==
    (IF call.op # "idle" /\ call.pc # "done" THEN {call.req} ELSE {})
      \cup (IF test.active /\ test.device = "pending" THEN {test.req} ELSE {})

\* the number of device requests that have not settled yet
Outstanding ==
    (IF call.op # "idle" /\ call.pc # "done" THEN 1 ELSE 0)
      + (IF test.active /\ test.device = "pending" THEN 1 ELSE 0)

\* C13: in every reachable state at most one device request issued by the
\* adapter is outstanding: across all operations in flight (getAccounts,
\* signTransaction, signMessage, testConnection, in any order in which a caller
\* may start them), a device request is issued only after the previously
\* issued one has settled.
C13_OneOutstandingRequest ==
    /\ Outstanding <= 1
    /\ \A r \in OutstandingRequests : r.kind # "none"

\* the sign-transaction request signTransactionAsync sends for txParams under
\* the base path and path index given
ExpectedSignTransactionReq(base, index, txParams) ==
    [kind |-> "signTransaction", path |-> [base |-> base, index |-> index],
     confirm |-> FALSE, chainCode |-> FALSE,
     payload |-> << StripHexPrefix(txParams.nonce), StripHexPrefix(txParams.gasPrice),
                    StripHexPrefix(txParams.gasLimit), StripHexPrefix(txParams.to),
                    StripHexPrefix(txParams.value), StripHexPrefix(txParams.data),
                    ToString16(network \div 16) \o ToString16(network % 16),
                    <<>>, <<>> >>]

\* a step that starts a signTransaction call
StartsSignTransaction == call.op = "idle" /\ call'.op = "signTransaction"

\* C14 as claimed: every signTransaction call issues exactly one device
\* request: a sign-transaction request at path basePath/pathIndex, using the
\* base path and path index configured when the request is issued; it issues
\* no get-address request and does not resolve the sender address to an index.
C14_ExactlyOneSignRequest ==
    call.op = "signTransaction"
        => /\ call.nSign = 1
           /\ call.nGetAddress = 0
           /\ call.req.kind = "signTransaction"
           /\ ~call.cfgChanged => call.req.path = [base |-> derivationPath,
                                                   index |-> derivationPathIndex]

\* C14 as amended: a signTransaction call whose transaction builds issues
\* exactly one device request, a sign-transaction request for the serialized
\* transaction at basePath/pathIndex as configured when the request is issued
\* (the step that starts the call), and never a get-address request; a call
\* whose transaction fails to build issues no device request.
C14_OneSignRequestWhenBuilt ==
    /\ [](call.op = "signTransaction"
            => /\ call.nGetAddress = 0
               /\ call.addressIndex = 0
               /\ IF BuildFails(call.txParams)
                  THEN call.nSign = 0 /\ call.req = NoReq /\ call.pc = "done"
                  ELSE /\ call.nSign = 1
                       /\ call.req.kind = "signTransaction"
                       /\ ~call.cfgChanged
                            => call.req = ExpectedSignTransactionReq(
                                              derivationPath, derivationPathIndex,
                                              call.txParams))
    /\ [][(StartsSignTransaction /\ ~BuildFails(call'.txParams))
            => call'.req = ExpectedSignTransactionReq(derivationPath, derivationPathIndex,
                                                      call'.txParams)]_vars
    /\ [][(call.op = "signTransaction" /\ call'.op = "signTransaction")
            => (call'.req = call.req /\ call'.nSign = call.nSign
                  /\ call'.nGetAddress = call.nGetAddress)]_vars

\* C14 witness: a signTransaction call through the wallet finished with its
\* one request sent at the base path and path index set before it started
C14_Witness ==
    /\ call.op = "signTransaction"
    /\ call.pc = "done"
    /\ call.via = "wallet"
    /\ ~call.cfgChanged
    /\ call.nSign = 1
    /\ call.req.path = [base |-> OtherPath, index |-> MaxPathIndex]
    /\ Len(call.cb) = 1
    /\ call.cb[1].err = NoError

\* a signMessage call one of whose device requests the device rejected
SignMessageFailed ==
    /\ call.op = "signMessage"
    /\ call.pc = "done"
    /\ call.deviceError # NoError

\* the step in which the device rejects a request of a signMessage call
SignMessageRejectStep ==
    /\ call.op = "signMessage"
    /\ call.deviceError = NoError
    /\ call'.op = "signMessage"
    /\ call'.deviceError # NoError

\* C15: in signMessage, if any device request fails (a get-address probe
\* during address resolution, the get-address of the signing path, or the
\* sign-personal-message request), the callback receives that same device
\* error, and the call issues no further device request after the failed one:
\* no remaining probes, no sign request, no retry.
C15_SignMessageAborts ==
    /\ [](SignMessageFailed
            => /\ Len(call.cb) = 1
               /\ call.cb[1].err = call.deviceError
               /\ call.cb[1].result = Undefined
               /\ call.result = NoResult
               /\ call.req.kind = "getAddress" => call.nSign = 0
               /\ (call.req.kind = "getAddress" /\ call.localPath.base = "")
                    => (call.nGetAddress = call.i + 1 /\ call.i < MaxTries)
               /\ (call.req.kind = "getAddress" /\ call.localPath.base # "")
                    => call.nGetAddress = (IF call.from = Undefined THEN 1
                                           ELSE call.addressIndex + 2)
               /\ call.req.kind = "signPersonalMessage" => call.nSign = 1)
    /\ [][SignMessageRejectStep
            => /\ call'.pc = "done"
               /\ call'.req = call.req
               /\ call'.nGetAddress = call.nGetAddress
               /\ call'.nSign = call.nSign
               /\ call'.cb[Len(call'.cb)].err = call'.deviceError]_vars
    /\ [][(SignMessageFailed /\ call'.op = "signMessage")
            => /\ call'.req = call.req
               /\ call'.nGetAddress = call.nGetAddress
               /\ call'.nSign = call.nSign
               /\ call'.cb = call.cb]_vars

\* C15 witness: the third probe of an address search failed
C15_Witness ==
    /\ SignMessageFailed
    /\ call.from # Undefined
    /\ call.req.kind = "getAddress"
    /\ call.localPath.base = ""
    /\ call.nGetAddress = 3
    /\ call.cb[1].err = "USER_REJECTED"

\* a step of setPath / of setPathIndex
SetPathStep == \E path \in Paths : setPath(path)
SetPathIndexStep == \E pathIndex \in PathIndexes : setPathIndex(pathIndex)

\* a step of getAccounts, signTransaction, signMessage, testConnection or
\* isSupported: the call in flight or the race in flight changes
OperationStep ==
    /\ ~SetPathStep
    /\ ~SetPathIndexStep
    /\ (call' # call \/ test' # test)

\* C16: the base path changes only in a setPath step and the path index only
\* in a setPathIndex step; getAccounts, signTransaction, signMessage,
\* testConnection and isSupported leave the base path, path index, chain id,
\* confirmation flag and chain-code flag unchanged; the chain-code flag is
\* false in every reachable state; and getPath returns the most recently set
\* base path.
C16_ConfigurationFrame ==
    /\ [][derivationPath' # derivationPath => SetPathStep]_vars
    /\ [][derivationPathIndex' # derivationPathIndex => SetPathIndexStep]_vars
    /\ [][SetPathStep => derivationPathIndex' = derivationPathIndex]_vars
    /\ [][SetPathIndexStep => derivationPath' = derivationPath]_vars
    /\ [][OperationStep => config' = config]_vars
    /\ [][network' = network
            /\ shouldAlwaysAskForConfirmation' = shouldAlwaysAskForConfirmation
            /\ shouldGetChainCode' = shouldGetChainCode]_vars
    /\ [](shouldGetChainCode = FALSE)
    /\ [](call.req.kind = "getAddress" => call.req.chainCode = FALSE)
    /\ [](test.req.kind = "getAddress" => test.req.chainCode = FALSE)
    /\ [](getPath = lastSetPath)

\* C16 witness: isSupported has reported after both setters ran; getPath
\* returns the base path set last
C16_Witness ==
    /\ call.op = "isSupported"
    /\ call.pc = "done"
    /\ call.cb = << [err |-> NoError, result |-> TRUE, threw |-> FALSE] >>
    /\ getPath = OtherPath
    /\ lastSetPath = OtherPath
    /\ derivationPathIndex = MaxPathIndex
    /\ shouldGetChainCode = FALSE

\* the lower-cased addresses of N consecutive indices from a starting path
ConsecutiveAccounts(start) ==
    [j \in 1..NUM_ADDRESSES_TO_FETCH |->
        ToLowerCase(DeviceAddress([base |-> start.base, index |-> start.index + j - 1]))]

\* C17: the accounts reported by a getAccounts call are the addresses of N
\* consecutive indices under one base path, namely the base path and path
\* index configured when the call started, even when setPath or setPathIndex
\* is invoked while the call is suspended awaiting a device response.
C17_AccountsOfStartConfiguration ==
    (call.op = "getAccounts" /\ call.pc = "done" /\ call.deviceError = NoError)
        => /\ call.cb[1].err = NoError
           /\ call.cb[1].result = ConsecutiveAccounts(call.start)

\* C18: each signTransaction call and each signMessage call invokes its
\* callback at most once, including when the callback's own success invocation
\* raises an exception: the callback is not invoked a second time with that
\* exception as the error.
C18_SignCallbackAtMostOnce ==
    call.op \in {"signTransaction", "signMessage"}
        => /\ Len(call.cb) <= 1
           /\ \A k \in 1..Len(call.cb) : call.cb[k].err # CallbackException

\* a testConnection race whose first callback invocation, made by the
\* device-success handler or by the timer handler, raised an exception
FirstReportRaised ==
    /\ test.active
    /\ test.first.event \in {"deviceSuccess", "timer"}
    /\ Len(test.cb) >= 1
    /\ test.cb[1].threw

\* C19: in testConnection, if the callback raises an exception during its
\* first invocation (from the device-success handler or from the timer
\* handler), the callback is still never invoked a second time for that call,
\* neither by the same branch's error handler nor by the other branch settling
\* later.
C19_NoSecondInvocationAfterRaise ==
    FirstReportRaised => Len(test.cb) = 1

\* a testConnection race that has not invoked its callback yet
TestUnreported == test.active /\ Len(test.cb) = 0

\* C20: every testConnection call eventually invokes its callback, assuming
\* only that the timer eventually fires: when the device get-address request
\* never settles, the callback is still invoked (with connected=false) once
\* the timer fires.
C20_EventuallyReported ==
    /\ TestUnreported ~> (test.active /\ Len(test.cb) >= 1)
    /\ [](test.active /\ test.timer = "fired" => Len(test.cb) >= 1)
    /\ []((test.active /\ test.timer = "fired" /\ test.device = "pending")
            => (test.cb[1].err = NoError /\ test.cb[1].connected = FALSE))

\* C20 witness: the timer has fired and reported connected=false while the
\* device request is still unsettled
C20_Witness ==
    /\ test.active
    /\ test.device = "pending"
    /\ test.timer = "fired"
    /\ Len(test.cb) = 1
    /\ test.cb[1].connected = FALSE
    /\ test.cb[1].err = NoError

====
